---- MODULE Spec2Model ----
(***************************************************************************)
(* The relational mining engine of universal_miner.py: the row loop of     *)
(* main() over the spreadsheet rows, with make_key, clean_text,            *)
(* clean_hint_text, infer_tags and parse_options_v2.                       *)
(*                                                                         *)
(* Text is a sequence of one-character strings, so that strip(), upper(),  *)
(* slicing, the regular expressions and the substring test `in` are        *)
(* computed as Python computes them.  hashlib.md5 is the table MD5Table of *)
(* the real digests of every text the bounded inputs can hash.             *)
(***************************************************************************)
EXTENDS Integers, Sequences, FiniteSets, TLC

VARIABLES
    columns,          \* the column names of df after normalize_input
    df,               \* the rows the loop has consumed so far, in order
    tbl_categories,   \* dict CategoryKey -> row
    tbl_collections,  \* dict CollectionKey -> row
    tbl_quizzes,      \* dict QuizKey -> row
    tbl_scenarios,    \* list of rows
    tbl_questions,    \* list of rows
    tbl_options,      \* list of rows
    tbl_hints,        \* list of rows
    seen_scenarios,   \* dict md5 hexdigest -> ScenarioKey
    pc,               \* "loop" in a run; "call", "returned" in a direct call
    call,             \* a direct call of parse_options_v2: its arguments
    ret               \* and what it returned

vars == <<columns, df, tbl_categories, tbl_collections, tbl_quizzes, tbl_scenarios,
          tbl_questions, tbl_options, tbl_hints, seen_scenarios, pc, call, ret>>

----------------------------------------------------------------------------
(* Characters and the str methods the code uses *)

UpperChars == <<"A", "B", "C", "D", "E", "F", "G", "H", "I", "J", "K", "L", "M", "N", "O", "P", "Q", "R", "S", "T", "U", "V", "W", "X", "Y", "Z">>
LowerChars == <<"a", "b", "c", "d", "e", "f", "g", "h", "i", "j", "k", "l", "m", "n", "o", "p", "q", "r", "s", "t", "u", "v", "w", "x", "y", "z">>
DigitChars == {"0", "1", "2", "3", "4", "5", "6", "7", "8", "9"}
SpaceChars == {" ", "\t", "\n", "\r", "\f"}

\* a blank spreadsheet cell (pandas NaN) and Python's None
NaN == <<"NaN">>
None == <<"None">>
\* None in a column of integers
NoneInt == << >>

UpperSet == {UpperChars[i] : i \in 1..Len(UpperChars)}
LowerSet == {LowerChars[i] : i \in 1..Len(LowerChars)}
\* the capital of each small letter, and the reverse
UpperOf == [c \in LowerSet |-> UpperChars[CHOOSE i \in 1..Len(LowerChars) : LowerChars[i] = c]]
LowerOf == [c \in UpperSet |-> LowerChars[CHOOSE i \in 1..Len(UpperChars) : UpperChars[i] = c]]

IsUpper(c) == c \in UpperSet
IsLower(c) == c \in LowerSet
\* [A-Za-z]
IsAlpha(c) == IsUpper(c) \/ IsLower(c)
\* \d
IsDigit(c) == c \in DigitChars
\* [A-Za-z0-9]
IsAlnum(c) == IsAlpha(c) \/ IsDigit(c)
\* \w
IsWordChar(c) == IsAlnum(c) \/ c = "_"
\* \s
IsSpace(c) == c \in SpaceChars

ToUpper(c) == IF IsLower(c) THEN UpperOf[c] ELSE c
ToLower(c) == IF IsUpper(c) THEN LowerOf[c] ELSE c

\* str.upper(), str.lower()
Upper(s) == SubSeq([i \in 1..Len(s) |-> ToUpper(s[i])], 1, Len(s))
Lower(s) == SubSeq([i \in 1..Len(s) |-> ToLower(s[i])], 1, Len(s))

\* s[:n]
Take(s, n) == SubSeq(s, 1, IF Len(s) < n THEN Len(s) ELSE n)
\* s[n:] with n counted from 1: the text from position n on
From(s, n) == SubSeq(s, n, Len(s))

\* the first position >= i of s that holds no whitespace (Len(s) + 1 if none)
SkipSpace(s, i) ==
    CHOOSE j \in i..(Len(s) + 1) :
        /\ j = Len(s) + 1 \/ ~IsSpace(s[j])
        /\ \A k \in i..(j - 1) : IsSpace(s[k])

\* the last position of s that holds no whitespace (0 if none)
LastNonSpace(s) ==
    CHOOSE j \in 0..Len(s) :
        /\ j = 0 \/ ~IsSpace(s[j])
        /\ \A k \in (j + 1)..Len(s) : IsSpace(s[k])

\* str.strip()
Strip(s) == SubSeq(s, SkipSpace(s, 1), LastNonSpace(s))

\* sub in s
Contains(sub, s) ==
    \/ sub = << >>
    \/ \E i \in 1..(Len(s) - Len(sub) + 1) :
           s[i] = sub[1] /\ SubSeq(s, i, i + Len(sub) - 1) = sub

\* chr(n) for the capital letters
chr(n) == UpperChars[n - 64]

\* the regular expression [A-Za-z]\) matches at position i of s
MarkerAt(s, i) == i >= 1 /\ i + 1 <= Len(s) /\ IsAlpha(s[i]) /\ s[i + 1] = ")"

\* the regular expression \b[A-Za-z]\) matches at position i of s
BoundMarkerAt(s, i) == MarkerAt(s, i) /\ (i = 1 \/ ~IsWordChar(s[i - 1]))

\* pd.isna(text) or text is None
IsBlank(text) == text = NaN \/ text = None

clean_text(text) == IF IsBlank(text) THEN << >> ELSE Strip(text)

----------------------------------------------------------------------------
(* parse_options_v2 *)

S_drag_drop == <<"d", "r", "a", "g", "_", "d", "r", "o", "p">>
S_sequence == <<"s", "e", "q", "u", "e", "n", "c", "e">>
S_ordering == <<"o", "r", "d", "e", "r", "i", "n", "g">>

\* re.split(r";\s*(?=[A-Za-z]\))", s)
RECURSIVE SplitBeforeMarker(_)
SplitBeforeMarker(s) ==
    LET seps == {i \in 1..Len(s) : s[i] = ";" /\ MarkerAt(s, SkipSpace(s, i + 1))}
    IN  IF seps = {} THEN <<s>>
        ELSE LET i == CHOOSE i \in seps : \A j \in seps : i <= j
             IN  <<SubSeq(s, 1, i - 1)>> \o SplitBeforeMarker(From(s, SkipSpace(s, i + 1)))

\* s.split(';')
RECURSIVE SplitSemicolon(_)
SplitSemicolon(s) ==
    LET seps == {i \in 1..Len(s) : s[i] = ";"}
    IN  IF seps = {} THEN <<s>>
        ELSE LET i == CHOOSE i \in seps : \A j \in seps : i <= j
             IN  <<SubSeq(s, 1, i - 1)>> \o SplitSemicolon(From(s, i + 1))

raw_options(options_str) ==
    IF \E i \in 1..Len(options_str) : BoundMarkerAt(options_str, i)
    THEN SplitBeforeMarker(options_str)
    ELSE SplitSemicolon(options_str)

\* set(re.findall(r"\b([A-Za-z])\)", correct_str))
correct_letters(correct_str) ==
    {correct_str[i] : i \in {j \in 1..Len(correct_str) : BoundMarkerAt(correct_str, j)}}

is_sequence(q_type) == q_type \in {S_drag_drop, S_sequence, S_ordering}

\* re.match(r"^([A-Za-z])\)\s*(.*)", opt_text) matched
letter_match(opt_text) == MarkerAt(opt_text, 1)

\* .* stops at the first newline
UpToNewline(s) ==
    LET nl == {i \in 1..Len(s) : s[i] = "\n"}
    IN  IF nl = {} THEN s ELSE SubSeq(s, 1, (CHOOSE i \in nl : \A j \in nl : i <= j) - 1)

option_letter(opt_text, idx) ==
    IF letter_match(opt_text) THEN ToUpper(opt_text[1]) ELSE chr(64 + idx)

option_text_body(opt_text) ==
    IF letter_match(opt_text) THEN UpToNewline(From(opt_text, SkipSpace(opt_text, 3)))
    ELSE opt_text

\* the is_correct flag of one option
option_is_correct(q_type, opt_text, idx, correct_str) ==
    IF is_sequence(q_type)
    THEN Contains(opt_text, correct_str)
    ELSE \/ option_letter(opt_text, idx) \in correct_letters(correct_str)
         \/ Contains(option_text_body(opt_text), correct_str)

\* the row built for the idx-th fragment
option_row(question_key, q_type, opt_raw, idx, correct_str) ==
    LET opt_text == Strip(opt_raw)
        is_correct == option_is_correct(q_type, opt_text, idx, correct_str)
        correct_order == IF is_sequence(q_type) /\ is_correct THEN <<idx>> ELSE NoneInt
    IN  [QuestionKey |-> question_key,
         Text |-> option_text_body(opt_text),
         IsCorrect |-> is_correct,
         OrderIndex |-> idx,
         CorrectOrder |-> correct_order,
         HotspotCoords |-> None]

parse_options_v2(question_key, q_type, options_in, correct_in) ==
    LET options_str == clean_text(options_in)
        correct_str == clean_text(correct_in)
        raw == raw_options(options_str)
    IN  IF options_str = << >> THEN << >>
        ELSE SubSeq([idx \in 1..Len(raw) |->
                        option_row(question_key, q_type, raw[idx], idx, correct_str)],
                    1, Len(raw))

----------------------------------------------------------------------------
(* make_key *)

\* hashlib.md5(text.encode()).hexdigest() of every text the inputs can hash:
\* pairs <<text, hexdigest>>, the digests computed by hashlib
MD5Table == {
    <<<<"I", "T", " ", "&", " ", "T", "e", "c", "h", "n", "o", "l", "o", "g", "y">>,
      <<"6", "3", "8", "9", "6", "1", "8", "0", "b", "9", "2", "5", "2", "8", "c", "5", "d", "4", "9", "9", "d", "8", "5", "8", "4", "8", "6", "6", "c", "b", "c", "0">>>>,
    <<<<"C", "l", "o", "u", "d">>,
      <<"c", "8", "e", "2", "2", "7", "7", "e", "c", "f", "b", "1", "4", "2", "7", "8", "3", "8", "c", "4", "8", "8", "c", "2", "1", "7", "f", "9", "9", "4", "6", "6">>>>,
    <<<<"D", "a", "t", "a">>,
      <<"f", "6", "0", "6", "8", "d", "a", "a", "2", "9", "d", "b", "b", "0", "5", "a", "7", "e", "a", "d", "1", "e", "3", "b", "5", "a", "4", "8", "b", "b", "e", "e">>>>,
    <<<<"A", "Z", "-", "1", "0", "4">>,
      <<"0", "4", "3", "4", "7", "a", "c", "4", "e", "8", "9", "b", "1", "9", "f", "5", "e", "f", "7", "5", "5", "9", "e", "f", "6", "f", "9", "7", "5", "3", "8", "6">>>>,
    <<<<"D", "P", "-", "9", "0", "0">>,
      <<"2", "e", "9", "1", "c", "9", "0", "3", "b", "1", "b", "e", "a", "9", "3", "6", "d", "b", "c", "1", "d", "c", "5", "a", "8", "e", "1", "7", "2", "6", "6", "2">>>>,
    <<<<"A", "Z", "-", "1", "0", "4", " ", "P", "r", "a", "c", "t", "i", "c", "e", " ", "T", "e", "s", "t">>,
      <<"0", "2", "0", "c", "6", "8", "8", "b", "6", "1", "6", "e", "c", "3", "1", "c", "b", "3", "a", "e", "4", "b", "3", "7", "2", "3", "5", "a", "a", "8", "f", "a">>>>,
    <<<<"A", "Z", "-", "1", "0", "4", " ", "M", "o", "c", "k", " ", "E", "x", "a", "m">>,
      <<"7", "2", "d", "6", "d", "a", "f", "0", "9", "8", "0", "b", "1", "f", "f", "3", "3", "c", "e", "c", "c", "4", "7", "d", "c", "9", "e", "f", "a", "2", "5", "0">>>>,
    <<<<"A", "Z", "-", "1", "0", "4", " ", "B", "a", "t", "c", "h", " ", "1">>,
      <<"d", "e", "e", "7", "e", "4", "c", "7", "9", "3", "9", "b", "1", "8", "8", "9", "3", "9", "7", "d", "9", "5", "9", "4", "4", "c", "2", "f", "3", "2", "0", "b">>>>,
    <<<<"C", "o", "n", "t", "o", "s", "o", " ", "L", "t", "d", ".", " ", "V", "M">>,
      <<"6", "e", "5", "4", "5", "7", "6", "e", "d", "4", "f", "e", "1", "6", "0", "b", "0", "0", "3", "8", "4", "c", "e", "4", "a", "c", "9", "b", "1", "7", "3", "0">>>>,
    <<<<"6", "e", "5", "4", "5", "7", "6", "e", "d", "4", "f", "e", "1", "6", "0", "b", "0", "0", "3", "8", "4", "c", "e", "4", "a", "c", "9", "b", "1", "7", "3", "0">>,
      <<"2", "e", "2", "2", "5", "7", "5", "b", "d", "a", "0", "0", "d", "7", "7", "a", "7", "7", "c", "b", "6", "e", "3", "2", "5", "8", "f", "c", "4", "4", "c", "4">>>>,
    <<<<"C", "o", "n", "t", "o", "s", "o", " ", "L", "t", "d", ".", " ", "V", "M", "s">>,
      <<"2", "3", "d", "c", "a", "d", "6", "e", "e", "9", "6", "7", "6", "b", "6", "b", "1", "4", "7", "2", "c", "8", "a", "4", "3", "5", "4", "2", "4", "2", "f", "5">>>>,
    <<<<"2", "3", "d", "c", "a", "d", "6", "e", "e", "9", "6", "7", "6", "b", "6", "b", "1", "4", "7", "2", "c", "8", "a", "4", "3", "5", "4", "2", "4", "2", "f", "5">>,
      <<"1", "7", "6", "5", "4", "9", "9", "0", "b", "e", "c", "9", "7", "8", "7", "4", "a", "7", "f", "3", "f", "a", "f", "1", "1", "6", "5", "3", "f", "f", "1", "d">>>>,
    <<<<"T", "E", "X", "T", "C", "O", "L", "L", "B", "Y", "f", "G", "i", "J", "U", "E", "T", "H", "Q", "4", "h", "A", "c", "K", "S", "M", "d", "5", "z", "Y", "p", "g", "q", "f", "1", "Y", "R", "D", "h", "k", "m", "x", "H", "k", "h", "P", "W", "p", "t", "r", "k", "o", "y", "z", "2", "8", "w", "n", "I", "9", "V", "0", "a", "H", "e", "A", "u", "a", "K", "n", "a", "k">>,
      <<"f", "a", "a", "d", "4", "9", "8", "6", "6", "e", "9", "4", "9", "8", "f", "c", "1", "7", "1", "9", "f", "5", "2", "8", "9", "e", "7", "a", "0", "2", "6", "9">>>>,
    <<<<"f", "a", "a", "d", "4", "9", "8", "6", "6", "e", "9", "4", "9", "8", "f", "c", "1", "7", "1", "9", "f", "5", "2", "8", "9", "e", "7", "a", "0", "2", "6", "9">>,
      <<"2", "5", "8", "2", "7", "9", "b", "9", "c", "7", "3", "4", "0", "0", "0", "7", "a", "d", "4", "a", "d", "4", "b", "5", "e", "4", "a", "6", "7", "4", "2", "6">>>>,
    <<<<"T", "E", "X", "T", "C", "O", "L", "L", "B", "Y", "f", "G", "i", "J", "U", "E", "T", "H", "Q", "4", "h", "E", "c", "K", "S", "M", "d", "5", "z", "Y", "p", "g", "q", "f", "1", "Y", "R", "D", "h", "k", "m", "x", "H", "k", "h", "P", "W", "p", "t", "r", "k", "o", "y", "z", "2", "8", "w", "n", "I", "9", "V", "0", "a", "H", "e", "A", "u", "a", "K", "n", "a", "k">>,
      <<"f", "a", "a", "d", "4", "9", "8", "6", "6", "e", "9", "4", "9", "8", "f", "c", "1", "7", "1", "9", "f", "5", "2", "8", "9", "e", "7", "a", "0", "2", "6", "9">>>>,
    <<<<"Q", "U", "I", "Z", "_", "A", "Z", "1", "0", "4", "P", "R", "A", "C", "T", "I", "C", "E", "T", "E", "_", "0", "2", "0", "C", "_", "0", "_", "Q", "2", "2", "4", ":", " ", "W", "h", "i", "c">>,
      <<"9", "3", "f", "a", "1", "8", "8", "6", "8", "f", "4", "4", "a", "5", "0", "7", "d", "7", "c", "f", "9", "5", "8", "d", "d", "e", "b", "7", "b", "c", "d", "0">>>>,
    <<<<"Q", "U", "I", "Z", "_", "A", "Z", "1", "0", "4", "P", "R", "A", "C", "T", "I", "C", "E", "T", "E", "_", "0", "2", "0", "C", "_", "0", "_", "Q", "1", "5", "4", ":", " ", "O", "r", "d", "e">>,
      <<"b", "c", "7", "a", "8", "7", "a", "e", "d", "a", "d", "c", "b", "f", "9", "a", "b", "0", "e", "b", "8", "1", "5", "4", "1", "6", "6", "f", "0", "d", "2", "c">>>>,
    <<<<"Q", "U", "I", "Z", "_", "A", "Z", "1", "0", "4", "P", "R", "A", "C", "T", "I", "C", "E", "T", "E", "_", "0", "2", "0", "C", "_", "0", "_", "S", "e", "l", "e", "c", "t", " ", "[", "S", "L">>,
      <<"3", "4", "e", "c", "2", "6", "3", "f", "8", "d", "4", "9", "e", "e", "f", "7", "7", "8", "9", "9", "5", "4", "7", "3", "3", "2", "0", "5", "a", "4", "c", "4">>>>,
    <<<<"Q", "U", "I", "Z", "_", "A", "Z", "1", "0", "4", "P", "R", "A", "C", "T", "I", "C", "E", "T", "E", "_", "0", "2", "0", "C", "_", "0", "_", "D", "r", "a", "g", " ", "t", "h", "e", " ", "s">>,
      <<"9", "0", "b", "e", "5", "a", "3", "3", "2", "a", "6", "1", "3", "f", "b", "4", "d", "2", "9", "a", "0", "8", "4", "f", "8", "6", "f", "3", "2", "4", "f", "9">>>>,
    <<<<"Q", "U", "I", "Z", "_", "A", "Z", "1", "0", "4", "P", "R", "A", "C", "T", "I", "C", "E", "T", "E", "_", "0", "2", "0", "C", "_", "1", "_", "Q", "2", "2", "4", ":", " ", "W", "h", "i", "c">>,
      <<"c", "2", "1", "3", "a", "9", "a", "5", "f", "1", "6", "8", "3", "4", "e", "5", "1", "c", "1", "d", "1", "f", "e", "3", "b", "4", "3", "a", "7", "8", "b", "b">>>>,
    <<<<"Q", "U", "I", "Z", "_", "A", "Z", "1", "0", "4", "P", "R", "A", "C", "T", "I", "C", "E", "T", "E", "_", "0", "2", "0", "C", "_", "1", "_", "Q", "1", "5", "4", ":", " ", "O", "r", "d", "e">>,
      <<"9", "3", "f", "a", "5", "b", "6", "e", "2", "c", "a", "7", "b", "a", "f", "2", "f", "6", "1", "5", "5", "c", "0", "f", "d", "f", "f", "9", "a", "b", "2", "2">>>>,
    <<<<"Q", "U", "I", "Z", "_", "A", "Z", "1", "0", "4", "P", "R", "A", "C", "T", "I", "C", "E", "T", "E", "_", "0", "2", "0", "C", "_", "1", "_", "S", "e", "l", "e", "c", "t", " ", "[", "S", "L">>,
      <<"4", "4", "b", "7", "f", "7", "e", "4", "a", "2", "9", "d", "d", "d", "5", "7", "3", "b", "e", "c", "5", "f", "c", "f", "c", "1", "9", "2", "1", "1", "4", "f">>>>,
    <<<<"Q", "U", "I", "Z", "_", "A", "Z", "1", "0", "4", "P", "R", "A", "C", "T", "I", "C", "E", "T", "E", "_", "0", "2", "0", "C", "_", "1", "_", "D", "r", "a", "g", " ", "t", "h", "e", " ", "s">>,
      <<"a", "d", "2", "b", "9", "0", "4", "1", "d", "c", "8", "0", "8", "9", "1", "d", "5", "c", "9", "c", "e", "b", "4", "8", "5", "9", "a", "1", "3", "d", "b", "4">>>>,
    <<<<"Q", "U", "I", "Z", "_", "A", "Z", "1", "0", "4", "P", "R", "A", "C", "T", "I", "C", "E", "T", "E", "_", "0", "2", "0", "C", "_", "2", "_", "Q", "2", "2", "4", ":", " ", "W", "h", "i", "c">>,
      <<"8", "d", "a", "6", "0", "c", "d", "9", "3", "3", "8", "9", "0", "5", "5", "9", "6", "7", "f", "6", "6", "b", "0", "5", "c", "4", "9", "e", "7", "a", "0", "1">>>>,
    <<<<"Q", "U", "I", "Z", "_", "A", "Z", "1", "0", "4", "P", "R", "A", "C", "T", "I", "C", "E", "T", "E", "_", "0", "2", "0", "C", "_", "2", "_", "Q", "1", "5", "4", ":", " ", "O", "r", "d", "e">>,
      <<"f", "9", "3", "0", "e", "b", "2", "4", "1", "8", "a", "a", "8", "f", "c", "b", "4", "8", "3", "7", "2", "d", "9", "f", "9", "9", "6", "f", "e", "4", "9", "4">>>>,
    <<<<"Q", "U", "I", "Z", "_", "A", "Z", "1", "0", "4", "P", "R", "A", "C", "T", "I", "C", "E", "T", "E", "_", "0", "2", "0", "C", "_", "2", "_", "S", "e", "l", "e", "c", "t", " ", "[", "S", "L">>,
      <<"2", "3", "e", "a", "b", "6", "9", "c", "c", "f", "d", "4", "8", "6", "f", "9", "4", "7", "d", "6", "7", "b", "d", "3", "3", "0", "1", "1", "4", "4", "e", "5">>>>,
    <<<<"Q", "U", "I", "Z", "_", "A", "Z", "1", "0", "4", "P", "R", "A", "C", "T", "I", "C", "E", "T", "E", "_", "0", "2", "0", "C", "_", "2", "_", "D", "r", "a", "g", " ", "t", "h", "e", " ", "s">>,
      <<"b", "1", "a", "e", "0", "4", "4", "b", "2", "f", "3", "b", "2", "d", "d", "c", "7", "4", "0", "0", "8", "4", "3", "7", "f", "5", "f", "9", "5", "d", "e", "9">>>>,
    <<<<"Q", "U", "I", "Z", "_", "A", "Z", "1", "0", "4", "P", "R", "A", "C", "T", "I", "C", "E", "T", "E", "_", "0", "2", "0", "C", "_", "3", "_", "Q", "2", "2", "4", ":", " ", "W", "h", "i", "c">>,
      <<"7", "8", "e", "9", "7", "5", "b", "6", "e", "d", "7", "9", "d", "0", "6", "c", "9", "d", "b", "e", "a", "0", "e", "0", "b", "5", "a", "8", "e", "c", "e", "c">>>>,
    <<<<"Q", "U", "I", "Z", "_", "A", "Z", "1", "0", "4", "P", "R", "A", "C", "T", "I", "C", "E", "T", "E", "_", "0", "2", "0", "C", "_", "3", "_", "Q", "1", "5", "4", ":", " ", "O", "r", "d", "e">>,
      <<"f", "7", "0", "6", "7", "c", "7", "c", "b", "b", "1", "9", "0", "a", "b", "2", "8", "4", "1", "a", "b", "7", "8", "c", "9", "5", "0", "7", "f", "5", "d", "2">>>>,
    <<<<"Q", "U", "I", "Z", "_", "A", "Z", "1", "0", "4", "P", "R", "A", "C", "T", "I", "C", "E", "T", "E", "_", "0", "2", "0", "C", "_", "3", "_", "S", "e", "l", "e", "c", "t", " ", "[", "S", "L">>,
      <<"7", "3", "d", "c", "3", "0", "8", "5", "3", "e", "e", "5", "f", "7", "7", "2", "2", "5", "e", "a", "7", "6", "b", "e", "1", "2", "1", "b", "d", "9", "c", "2">>>>,
    <<<<"Q", "U", "I", "Z", "_", "A", "Z", "1", "0", "4", "P", "R", "A", "C", "T", "I", "C", "E", "T", "E", "_", "0", "2", "0", "C", "_", "3", "_", "D", "r", "a", "g", " ", "t", "h", "e", " ", "s">>,
      <<"f", "d", "e", "7", "5", "c", "e", "e", "9", "6", "2", "e", "2", "b", "d", "c", "8", "e", "c", "8", "0", "c", "0", "8", "7", "f", "9", "1", "e", "4", "1", "2">>>>,
    <<<<"Q", "U", "I", "Z", "_", "A", "Z", "1", "0", "4", "M", "O", "C", "K", "E", "X", "A", "M", "_", "7", "2", "D", "6", "_", "0", "_", "Q", "2", "2", "4", ":", " ", "W", "h", "i", "c">>,
      <<"e", "9", "a", "0", "5", "a", "2", "a", "2", "2", "5", "3", "9", "3", "2", "d", "2", "9", "6", "d", "1", "c", "e", "3", "7", "2", "0", "6", "d", "b", "9", "5">>>>,
    <<<<"Q", "U", "I", "Z", "_", "A", "Z", "1", "0", "4", "M", "O", "C", "K", "E", "X", "A", "M", "_", "7", "2", "D", "6", "_", "0", "_", "Q", "1", "5", "4", ":", " ", "O", "r", "d", "e">>,
      <<"0", "7", "0", "5", "7", "2", "c", "3", "0", "7", "d", "6", "9", "f", "b", "f", "2", "a", "5", "0", "a", "e", "d", "0", "f", "1", "8", "3", "c", "5", "3", "0">>>>,
    <<<<"Q", "U", "I", "Z", "_", "A", "Z", "1", "0", "4", "M", "O", "C", "K", "E", "X", "A", "M", "_", "7", "2", "D", "6", "_", "0", "_", "S", "e", "l", "e", "c", "t", " ", "[", "S", "L">>,
      <<"d", "2", "3", "0", "4", "0", "f", "b", "a", "b", "3", "2", "0", "a", "b", "7", "1", "b", "0", "6", "8", "d", "2", "3", "1", "d", "9", "6", "4", "2", "7", "5">>>>,
    <<<<"Q", "U", "I", "Z", "_", "A", "Z", "1", "0", "4", "M", "O", "C", "K", "E", "X", "A", "M", "_", "7", "2", "D", "6", "_", "0", "_", "D", "r", "a", "g", " ", "t", "h", "e", " ", "s">>,
      <<"2", "2", "5", "8", "f", "7", "f", "5", "2", "8", "6", "a", "2", "3", "c", "6", "5", "c", "5", "3", "1", "e", "e", "5", "d", "c", "3", "b", "e", "0", "2", "5">>>>,
    <<<<"Q", "U", "I", "Z", "_", "A", "Z", "1", "0", "4", "M", "O", "C", "K", "E", "X", "A", "M", "_", "7", "2", "D", "6", "_", "1", "_", "Q", "2", "2", "4", ":", " ", "W", "h", "i", "c">>,
      <<"b", "3", "b", "b", "e", "6", "c", "b", "a", "e", "d", "f", "8", "e", "5", "3", "1", "8", "2", "2", "7", "e", "3", "f", "f", "5", "3", "4", "c", "0", "8", "f">>>>,
    <<<<"Q", "U", "I", "Z", "_", "A", "Z", "1", "0", "4", "M", "O", "C", "K", "E", "X", "A", "M", "_", "7", "2", "D", "6", "_", "1", "_", "Q", "1", "5", "4", ":", " ", "O", "r", "d", "e">>,
      <<"c", "6", "0", "e", "d", "8", "3", "0", "0", "4", "8", "9", "c", "f", "b", "1", "5", "1", "3", "e", "a", "c", "c", "a", "9", "a", "a", "6", "b", "5", "5", "b">>>>,
    <<<<"Q", "U", "I", "Z", "_", "A", "Z", "1", "0", "4", "M", "O", "C", "K", "E", "X", "A", "M", "_", "7", "2", "D", "6", "_", "1", "_", "S", "e", "l", "e", "c", "t", " ", "[", "S", "L">>,
      <<"5", "9", "9", "7", "f", "3", "e", "c", "c", "c", "2", "c", "9", "2", "3", "1", "3", "b", "a", "a", "7", "a", "8", "5", "a", "1", "2", "6", "6", "b", "8", "2">>>>,
    <<<<"Q", "U", "I", "Z", "_", "A", "Z", "1", "0", "4", "M", "O", "C", "K", "E", "X", "A", "M", "_", "7", "2", "D", "6", "_", "1", "_", "D", "r", "a", "g", " ", "t", "h", "e", " ", "s">>,
      <<"2", "c", "1", "d", "b", "f", "0", "4", "a", "a", "7", "4", "d", "a", "d", "8", "8", "2", "1", "9", "7", "7", "a", "5", "1", "b", "9", "b", "e", "6", "6", "6">>>>,
    <<<<"Q", "U", "I", "Z", "_", "A", "Z", "1", "0", "4", "M", "O", "C", "K", "E", "X", "A", "M", "_", "7", "2", "D", "6", "_", "2", "_", "Q", "2", "2", "4", ":", " ", "W", "h", "i", "c">>,
      <<"1", "b", "d", "1", "5", "a", "2", "9", "e", "3", "d", "4", "7", "5", "c", "b", "9", "2", "2", "f", "6", "1", "8", "b", "0", "6", "5", "8", "2", "b", "f", "1">>>>,
    <<<<"Q", "U", "I", "Z", "_", "A", "Z", "1", "0", "4", "M", "O", "C", "K", "E", "X", "A", "M", "_", "7", "2", "D", "6", "_", "2", "_", "Q", "1", "5", "4", ":", " ", "O", "r", "d", "e">>,
      <<"c", "9", "c", "b", "6", "3", "f", "1", "9", "8", "e", "e", "4", "6", "a", "2", "2", "b", "c", "c", "f", "6", "6", "5", "5", "2", "6", "6", "a", "6", "6", "1">>>>,
    <<<<"Q", "U", "I", "Z", "_", "A", "Z", "1", "0", "4", "M", "O", "C", "K", "E", "X", "A", "M", "_", "7", "2", "D", "6", "_", "2", "_", "S", "e", "l", "e", "c", "t", " ", "[", "S", "L">>,
      <<"6", "0", "e", "8", "a", "a", "b", "b", "b", "b", "8", "c", "8", "e", "9", "c", "0", "8", "e", "2", "e", "7", "e", "7", "1", "8", "a", "7", "8", "d", "5", "e">>>>,
    <<<<"Q", "U", "I", "Z", "_", "A", "Z", "1", "0", "4", "M", "O", "C", "K", "E", "X", "A", "M", "_", "7", "2", "D", "6", "_", "2", "_", "D", "r", "a", "g", " ", "t", "h", "e", " ", "s">>,
      <<"9", "2", "d", "d", "d", "c", "5", "4", "7", "2", "9", "6", "2", "a", "4", "e", "a", "8", "0", "a", "c", "4", "a", "d", "b", "d", "e", "b", "6", "5", "8", "b">>>>,
    <<<<"Q", "U", "I", "Z", "_", "A", "Z", "1", "0", "4", "M", "O", "C", "K", "E", "X", "A", "M", "_", "7", "2", "D", "6", "_", "3", "_", "Q", "2", "2", "4", ":", " ", "W", "h", "i", "c">>,
      <<"c", "e", "f", "a", "8", "7", "8", "5", "9", "b", "8", "5", "7", "d", "a", "4", "3", "5", "9", "5", "8", "3", "0", "f", "a", "f", "7", "f", "6", "2", "3", "f">>>>,
    <<<<"Q", "U", "I", "Z", "_", "A", "Z", "1", "0", "4", "M", "O", "C", "K", "E", "X", "A", "M", "_", "7", "2", "D", "6", "_", "3", "_", "Q", "1", "5", "4", ":", " ", "O", "r", "d", "e">>,
      <<"5", "3", "7", "7", "6", "6", "5", "7", "e", "7", "1", "b", "5", "1", "1", "5", "c", "d", "3", "7", "2", "7", "3", "9", "3", "4", "e", "4", "4", "6", "a", "d">>>>,
    <<<<"Q", "U", "I", "Z", "_", "A", "Z", "1", "0", "4", "M", "O", "C", "K", "E", "X", "A", "M", "_", "7", "2", "D", "6", "_", "3", "_", "S", "e", "l", "e", "c", "t", " ", "[", "S", "L">>,
      <<"1", "5", "8", "9", "9", "6", "5", "7", "0", "6", "3", "7", "a", "5", "a", "0", "1", "7", "d", "b", "4", "4", "5", "d", "a", "8", "d", "d", "0", "2", "e", "9">>>>,
    <<<<"Q", "U", "I", "Z", "_", "A", "Z", "1", "0", "4", "M", "O", "C", "K", "E", "X", "A", "M", "_", "7", "2", "D", "6", "_", "3", "_", "D", "r", "a", "g", " ", "t", "h", "e", " ", "s">>,
      <<"d", "e", "0", "0", "1", "c", "1", "9", "2", "7", "d", "c", "9", "c", "a", "d", "e", "e", "e", "f", "2", "c", "0", "0", "a", "4", "3", "c", "f", "6", "6", "a">>>>,
    <<<<"Q", "U", "I", "Z", "_", "A", "Z", "1", "0", "4", "B", "A", "T", "C", "H", "1", "_", "D", "E", "E", "7", "_", "0", "_", "Q", "2", "2", "4", ":", " ", "W", "h", "i", "c">>,
      <<"c", "1", "c", "9", "7", "6", "5", "8", "e", "0", "3", "3", "0", "5", "f", "5", "8", "6", "0", "6", "b", "6", "4", "5", "e", "a", "e", "c", "3", "0", "2", "e">>>>,
    <<<<"Q", "U", "I", "Z", "_", "A", "Z", "1", "0", "4", "B", "A", "T", "C", "H", "1", "_", "D", "E", "E", "7", "_", "0", "_", "Q", "1", "5", "4", ":", " ", "O", "r", "d", "e">>,
      <<"b", "3", "1", "3", "2", "3", "a", "d", "5", "0", "0", "2", "4", "3", "1", "8", "5", "7", "b", "a", "3", "7", "1", "6", "d", "c", "1", "6", "0", "9", "c", "e">>>>,
    <<<<"Q", "U", "I", "Z", "_", "A", "Z", "1", "0", "4", "B", "A", "T", "C", "H", "1", "_", "D", "E", "E", "7", "_", "0", "_", "S", "e", "l", "e", "c", "t", " ", "[", "S", "L">>,
      <<"c", "a", "9", "f", "0", "1", "7", "2", "0", "3", "4", "3", "0", "e", "b", "5", "1", "d", "7", "5", "2", "f", "7", "4", "e", "0", "1", "b", "7", "e", "2", "5">>>>,
    <<<<"Q", "U", "I", "Z", "_", "A", "Z", "1", "0", "4", "B", "A", "T", "C", "H", "1", "_", "D", "E", "E", "7", "_", "0", "_", "D", "r", "a", "g", " ", "t", "h", "e", " ", "s">>,
      <<"f", "d", "b", "2", "e", "f", "a", "d", "c", "7", "4", "2", "7", "4", "2", "f", "a", "2", "7", "1", "a", "e", "f", "3", "7", "8", "5", "8", "c", "b", "e", "5">>>>,
    <<<<"Q", "U", "I", "Z", "_", "A", "Z", "1", "0", "4", "B", "A", "T", "C", "H", "1", "_", "D", "E", "E", "7", "_", "1", "_", "Q", "2", "2", "4", ":", " ", "W", "h", "i", "c">>,
      <<"6", "e", "c", "c", "c", "4", "e", "b", "0", "0", "2", "e", "4", "5", "b", "f", "2", "c", "f", "c", "f", "4", "e", "b", "1", "b", "6", "e", "9", "b", "5", "4">>>>,
    <<<<"Q", "U", "I", "Z", "_", "A", "Z", "1", "0", "4", "B", "A", "T", "C", "H", "1", "_", "D", "E", "E", "7", "_", "1", "_", "Q", "1", "5", "4", ":", " ", "O", "r", "d", "e">>,
      <<"0", "d", "f", "e", "0", "d", "3", "6", "8", "1", "a", "c", "1", "2", "a", "9", "5", "b", "7", "7", "f", "d", "d", "e", "8", "8", "8", "8", "e", "b", "5", "d">>>>,
    <<<<"Q", "U", "I", "Z", "_", "A", "Z", "1", "0", "4", "B", "A", "T", "C", "H", "1", "_", "D", "E", "E", "7", "_", "1", "_", "S", "e", "l", "e", "c", "t", " ", "[", "S", "L">>,
      <<"b", "5", "7", "4", "8", "1", "e", "f", "7", "3", "a", "5", "a", "f", "d", "f", "5", "d", "4", "f", "2", "7", "d", "6", "2", "a", "f", "7", "2", "d", "3", "a">>>>,
    <<<<"Q", "U", "I", "Z", "_", "A", "Z", "1", "0", "4", "B", "A", "T", "C", "H", "1", "_", "D", "E", "E", "7", "_", "1", "_", "D", "r", "a", "g", " ", "t", "h", "e", " ", "s">>,
      <<"8", "7", "8", "8", "e", "e", "3", "4", "9", "a", "f", "0", "b", "3", "f", "8", "a", "6", "8", "2", "1", "5", "8", "2", "b", "6", "c", "0", "4", "a", "1", "9">>>>,
    <<<<"Q", "U", "I", "Z", "_", "A", "Z", "1", "0", "4", "B", "A", "T", "C", "H", "1", "_", "D", "E", "E", "7", "_", "2", "_", "Q", "2", "2", "4", ":", " ", "W", "h", "i", "c">>,
      <<"3", "b", "5", "5", "3", "e", "8", "4", "7", "1", "1", "d", "7", "6", "b", "2", "7", "d", "d", "3", "8", "a", "e", "5", "0", "f", "b", "d", "7", "1", "c", "8">>>>,
    <<<<"Q", "U", "I", "Z", "_", "A", "Z", "1", "0", "4", "B", "A", "T", "C", "H", "1", "_", "D", "E", "E", "7", "_", "2", "_", "Q", "1", "5", "4", ":", " ", "O", "r", "d", "e">>,
      <<"b", "3", "1", "0", "2", "0", "b", "d", "a", "5", "7", "8", "a", "d", "3", "9", "6", "e", "8", "4", "6", "4", "3", "3", "7", "4", "6", "7", "8", "7", "2", "d">>>>,
    <<<<"Q", "U", "I", "Z", "_", "A", "Z", "1", "0", "4", "B", "A", "T", "C", "H", "1", "_", "D", "E", "E", "7", "_", "2", "_", "S", "e", "l", "e", "c", "t", " ", "[", "S", "L">>,
      <<"2", "6", "a", "4", "c", "3", "2", "f", "f", "f", "3", "f", "d", "c", "5", "e", "e", "2", "c", "7", "7", "9", "7", "d", "6", "0", "1", "b", "6", "f", "8", "5">>>>,
    <<<<"Q", "U", "I", "Z", "_", "A", "Z", "1", "0", "4", "B", "A", "T", "C", "H", "1", "_", "D", "E", "E", "7", "_", "2", "_", "D", "r", "a", "g", " ", "t", "h", "e", " ", "s">>,
      <<"4", "e", "b", "4", "a", "a", "2", "0", "4", "a", "a", "b", "2", "6", "a", "1", "0", "6", "f", "a", "3", "2", "9", "5", "f", "a", "c", "c", "1", "d", "4", "6">>>>,
    <<<<"Q", "U", "I", "Z", "_", "A", "Z", "1", "0", "4", "B", "A", "T", "C", "H", "1", "_", "D", "E", "E", "7", "_", "3", "_", "Q", "2", "2", "4", ":", " ", "W", "h", "i", "c">>,
      <<"9", "7", "4", "7", "7", "c", "e", "0", "b", "4", "4", "a", "0", "7", "d", "1", "1", "b", "1", "a", "3", "0", "8", "e", "0", "9", "5", "7", "c", "f", "1", "b">>>>,
    <<<<"Q", "U", "I", "Z", "_", "A", "Z", "1", "0", "4", "B", "A", "T", "C", "H", "1", "_", "D", "E", "E", "7", "_", "3", "_", "Q", "1", "5", "4", ":", " ", "O", "r", "d", "e">>,
      <<"a", "f", "d", "b", "7", "5", "8", "d", "d", "2", "8", "3", "8", "e", "c", "c", "5", "8", "c", "a", "7", "8", "f", "0", "3", "3", "e", "e", "8", "e", "2", "1">>>>,
    <<<<"Q", "U", "I", "Z", "_", "A", "Z", "1", "0", "4", "B", "A", "T", "C", "H", "1", "_", "D", "E", "E", "7", "_", "3", "_", "S", "e", "l", "e", "c", "t", " ", "[", "S", "L">>,
      <<"6", "d", "c", "d", "e", "7", "8", "3", "d", "3", "a", "9", "c", "8", "5", "8", "1", "1", "e", "1", "6", "4", "5", "7", "4", "8", "d", "e", "e", "8", "5", "2">>>>,
    <<<<"Q", "U", "I", "Z", "_", "A", "Z", "1", "0", "4", "B", "A", "T", "C", "H", "1", "_", "D", "E", "E", "7", "_", "3", "_", "D", "r", "a", "g", " ", "t", "h", "e", " ", "s">>,
      <<"9", "d", "0", "1", "7", "7", "7", "a", "5", "8", "e", "8", "6", "2", "1", "4", "4", "5", "d", "6", "f", "b", "3", "2", "e", "8", "3", "4", "7", "d", "3", "1">>>>,
    <<<<"Q", "U", "I", "Z", "_", "1", "A", "2", "B", "3", "C", "4", "D", "_", "0", "_", "Q", "2", "2", "4", ":", " ", "W", "h", "i", "c">>,
      <<"1", "3", "b", "1", "3", "6", "8", "0", "0", "f", "b", "6", "5", "d", "4", "9", "f", "d", "9", "6", "e", "0", "e", "5", "c", "7", "2", "c", "3", "d", "e", "6">>>>,
    <<<<"Q", "U", "I", "Z", "_", "1", "A", "2", "B", "3", "C", "4", "D", "_", "0", "_", "Q", "1", "5", "4", ":", " ", "O", "r", "d", "e">>,
      <<"c", "8", "d", "5", "2", "a", "d", "c", "7", "a", "0", "8", "7", "9", "8", "b", "1", "c", "a", "b", "c", "c", "2", "2", "9", "b", "1", "4", "3", "f", "e", "3">>>>,
    <<<<"Q", "U", "I", "Z", "_", "1", "A", "2", "B", "3", "C", "4", "D", "_", "0", "_", "S", "e", "l", "e", "c", "t", " ", "[", "S", "L">>,
      <<"4", "d", "c", "7", "2", "2", "4", "a", "b", "5", "8", "8", "3", "8", "f", "e", "a", "5", "4", "6", "4", "d", "2", "3", "4", "0", "9", "d", "9", "3", "6", "3">>>>,
    <<<<"Q", "U", "I", "Z", "_", "1", "A", "2", "B", "3", "C", "4", "D", "_", "0", "_", "D", "r", "a", "g", " ", "t", "h", "e", " ", "s">>,
      <<"9", "d", "7", "6", "9", "5", "b", "a", "c", "5", "c", "0", "3", "4", "1", "9", "f", "c", "3", "a", "4", "b", "a", "5", "f", "d", "5", "f", "7", "3", "1", "e">>>>,
    <<<<"Q", "U", "I", "Z", "_", "1", "A", "2", "B", "3", "C", "4", "D", "_", "1", "_", "Q", "2", "2", "4", ":", " ", "W", "h", "i", "c">>,
      <<"1", "0", "7", "5", "8", "8", "9", "8", "2", "7", "e", "a", "3", "7", "9", "c", "5", "0", "2", "8", "2", "f", "4", "b", "e", "a", "2", "d", "2", "7", "d", "5">>>>,
    <<<<"Q", "U", "I", "Z", "_", "1", "A", "2", "B", "3", "C", "4", "D", "_", "1", "_", "Q", "1", "5", "4", ":", " ", "O", "r", "d", "e">>,
      <<"2", "7", "7", "4", "a", "7", "c", "9", "a", "7", "9", "7", "5", "e", "c", "0", "c", "9", "3", "9", "4", "7", "7", "5", "a", "8", "3", "f", "a", "2", "1", "b">>>>,
    <<<<"Q", "U", "I", "Z", "_", "1", "A", "2", "B", "3", "C", "4", "D", "_", "1", "_", "S", "e", "l", "e", "c", "t", " ", "[", "S", "L">>,
      <<"7", "6", "b", "e", "9", "4", "3", "3", "b", "f", "7", "4", "3", "3", "2", "b", "f", "6", "9", "6", "9", "0", "2", "9", "e", "3", "0", "8", "b", "2", "d", "c">>>>,
    <<<<"Q", "U", "I", "Z", "_", "1", "A", "2", "B", "3", "C", "4", "D", "_", "1", "_", "D", "r", "a", "g", " ", "t", "h", "e", " ", "s">>,
      <<"0", "3", "f", "0", "7", "4", "6", "5", "6", "1", "d", "8", "a", "1", "f", "5", "6", "3", "b", "e", "9", "0", "1", "a", "b", "7", "a", "8", "d", "b", "8", "f">>>>,
    <<<<"Q", "U", "I", "Z", "_", "1", "A", "2", "B", "3", "C", "4", "D", "_", "2", "_", "Q", "2", "2", "4", ":", " ", "W", "h", "i", "c">>,
      <<"6", "c", "c", "d", "1", "e", "9", "f", "3", "6", "c", "9", "0", "a", "2", "b", "4", "3", "7", "c", "6", "7", "d", "e", "8", "9", "d", "e", "e", "7", "6", "e">>>>,
    <<<<"Q", "U", "I", "Z", "_", "1", "A", "2", "B", "3", "C", "4", "D", "_", "2", "_", "Q", "1", "5", "4", ":", " ", "O", "r", "d", "e">>,
      <<"3", "8", "6", "b", "3", "0", "d", "e", "2", "f", "0", "f", "7", "2", "2", "f", "4", "1", "b", "1", "7", "c", "d", "8", "5", "a", "0", "3", "b", "9", "0", "4">>>>,
    <<<<"Q", "U", "I", "Z", "_", "1", "A", "2", "B", "3", "C", "4", "D", "_", "2", "_", "S", "e", "l", "e", "c", "t", " ", "[", "S", "L">>,
      <<"b", "e", "e", "f", "0", "b", "d", "d", "a", "1", "1", "c", "9", "c", "c", "d", "1", "4", "f", "a", "8", "2", "3", "d", "b", "d", "8", "b", "3", "6", "9", "7">>>>,
    <<<<"Q", "U", "I", "Z", "_", "1", "A", "2", "B", "3", "C", "4", "D", "_", "2", "_", "D", "r", "a", "g", " ", "t", "h", "e", " ", "s">>,
      <<"8", "c", "0", "1", "5", "0", "6", "c", "f", "d", "2", "9", "d", "d", "2", "c", "f", "4", "0", "7", "3", "6", "1", "b", "c", "8", "5", "6", "b", "9", "5", "2">>>>,
    <<<<"Q", "U", "I", "Z", "_", "1", "A", "2", "B", "3", "C", "4", "D", "_", "3", "_", "Q", "2", "2", "4", ":", " ", "W", "h", "i", "c">>,
      <<"5", "1", "8", "c", "7", "c", "7", "3", "2", "8", "1", "e", "a", "9", "3", "6", "5", "d", "0", "d", "2", "f", "d", "d", "8", "0", "a", "f", "4", "2", "d", "5">>>>,
    <<<<"Q", "U", "I", "Z", "_", "1", "A", "2", "B", "3", "C", "4", "D", "_", "3", "_", "Q", "1", "5", "4", ":", " ", "O", "r", "d", "e">>,
      <<"1", "0", "0", "e", "d", "7", "f", "3", "1", "2", "2", "4", "e", "6", "c", "c", "3", "1", "f", "8", "b", "4", "e", "a", "d", "f", "3", "2", "8", "4", "d", "4">>>>,
    <<<<"Q", "U", "I", "Z", "_", "1", "A", "2", "B", "3", "C", "4", "D", "_", "3", "_", "S", "e", "l", "e", "c", "t", " ", "[", "S", "L">>,
      <<"9", "2", "9", "e", "5", "7", "3", "e", "0", "2", "3", "6", "5", "a", "8", "c", "d", "e", "b", "b", "c", "7", "8", "9", "f", "e", "d", "e", "4", "a", "2", "0">>>>,
    <<<<"Q", "U", "I", "Z", "_", "1", "A", "2", "B", "3", "C", "4", "D", "_", "3", "_", "D", "r", "a", "g", " ", "t", "h", "e", " ", "s">>,
      <<"3", "8", "f", "8", "1", "5", "9", "0", "b", "4", "c", "9", "7", "4", "7", "4", "b", "2", "3", "0", "7", "7", "f", "e", "a", "6", "c", "6", "3", "1", "b", "e">>>>,
    <<<<"Q", "U", "I", "Z", "_", "9", "F", "8", "E", "7", "D", "6", "C", "_", "0", "_", "Q", "2", "2", "4", ":", " ", "W", "h", "i", "c">>,
      <<"a", "f", "b", "6", "0", "e", "0", "1", "a", "5", "1", "f", "6", "0", "c", "8", "7", "d", "2", "1", "8", "c", "0", "6", "b", "0", "e", "d", "8", "c", "8", "4">>>>,
    <<<<"Q", "U", "I", "Z", "_", "9", "F", "8", "E", "7", "D", "6", "C", "_", "0", "_", "Q", "1", "5", "4", ":", " ", "O", "r", "d", "e">>,
      <<"e", "9", "c", "b", "e", "9", "7", "7", "d", "0", "4", "b", "2", "3", "c", "5", "d", "3", "4", "b", "a", "b", "6", "b", "5", "6", "f", "2", "7", "5", "e", "9">>>>,
    <<<<"Q", "U", "I", "Z", "_", "9", "F", "8", "E", "7", "D", "6", "C", "_", "0", "_", "S", "e", "l", "e", "c", "t", " ", "[", "S", "L">>,
      <<"2", "b", "b", "3", "2", "1", "b", "4", "d", "5", "a", "3", "7", "e", "3", "8", "f", "5", "0", "b", "6", "7", "c", "1", "1", "a", "e", "6", "2", "6", "7", "5">>>>,
    <<<<"Q", "U", "I", "Z", "_", "9", "F", "8", "E", "7", "D", "6", "C", "_", "0", "_", "D", "r", "a", "g", " ", "t", "h", "e", " ", "s">>,
      <<"a", "2", "6", "9", "7", "c", "1", "3", "6", "9", "8", "6", "a", "4", "e", "e", "f", "4", "8", "6", "f", "4", "0", "6", "c", "c", "b", "d", "8", "b", "e", "b">>>>,
    <<<<"Q", "U", "I", "Z", "_", "9", "F", "8", "E", "7", "D", "6", "C", "_", "1", "_", "Q", "2", "2", "4", ":", " ", "W", "h", "i", "c">>,
      <<"0", "6", "9", "0", "f", "6", "2", "6", "c", "8", "e", "2", "d", "d", "9", "8", "7", "8", "9", "5", "c", "a", "a", "9", "d", "a", "3", "0", "8", "a", "c", "f">>>>,
    <<<<"Q", "U", "I", "Z", "_", "9", "F", "8", "E", "7", "D", "6", "C", "_", "1", "_", "Q", "1", "5", "4", ":", " ", "O", "r", "d", "e">>,
      <<"6", "b", "5", "4", "5", "2", "d", "6", "7", "0", "0", "e", "c", "e", "7", "7", "3", "d", "1", "8", "7", "4", "c", "1", "a", "9", "e", "7", "4", "c", "8", "0">>>>,
    <<<<"Q", "U", "I", "Z", "_", "9", "F", "8", "E", "7", "D", "6", "C", "_", "1", "_", "S", "e", "l", "e", "c", "t", " ", "[", "S", "L">>,
      <<"3", "2", "2", "6", "9", "d", "b", "b", "8", "e", "b", "7", "4", "8", "6", "0", "d", "2", "b", "5", "3", "b", "8", "6", "b", "8", "6", "9", "c", "2", "7", "d">>>>,
    <<<<"Q", "U", "I", "Z", "_", "9", "F", "8", "E", "7", "D", "6", "C", "_", "1", "_", "D", "r", "a", "g", " ", "t", "h", "e", " ", "s">>,
      <<"9", "8", "c", "d", "f", "7", "a", "b", "2", "2", "e", "9", "0", "d", "a", "1", "9", "f", "7", "2", "5", "f", "b", "1", "d", "0", "4", "7", "7", "9", "1", "5">>>>,
    <<<<"Q", "U", "I", "Z", "_", "9", "F", "8", "E", "7", "D", "6", "C", "_", "2", "_", "Q", "2", "2", "4", ":", " ", "W", "h", "i", "c">>,
      <<"5", "b", "c", "7", "8", "6", "1", "2", "3", "b", "1", "5", "9", "2", "f", "e", "5", "f", "8", "7", "0", "2", "d", "d", "4", "8", "5", "3", "a", "9", "a", "4">>>>,
    <<<<"Q", "U", "I", "Z", "_", "9", "F", "8", "E", "7", "D", "6", "C", "_", "2", "_", "Q", "1", "5", "4", ":", " ", "O", "r", "d", "e">>,
      <<"d", "7", "e", "e", "9", "6", "1", "d", "6", "9", "f", "2", "d", "4", "b", "e", "5", "0", "5", "c", "7", "f", "e", "f", "7", "0", "5", "0", "2", "e", "9", "5">>>>,
    <<<<"Q", "U", "I", "Z", "_", "9", "F", "8", "E", "7", "D", "6", "C", "_", "2", "_", "S", "e", "l", "e", "c", "t", " ", "[", "S", "L">>,
      <<"4", "d", "0", "0", "7", "d", "c", "b", "6", "9", "d", "b", "1", "a", "e", "2", "2", "0", "1", "0", "2", "c", "5", "c", "6", "b", "0", "e", "d", "0", "a", "5">>>>,
    <<<<"Q", "U", "I", "Z", "_", "9", "F", "8", "E", "7", "D", "6", "C", "_", "2", "_", "D", "r", "a", "g", " ", "t", "h", "e", " ", "s">>,
      <<"0", "b", "8", "f", "c", "5", "2", "6", "f", "d", "e", "3", "d", "d", "5", "6", "3", "4", "c", "5", "e", "d", "b", "9", "6", "5", "9", "9", "b", "9", "d", "4">>>>,
    <<<<"Q", "U", "I", "Z", "_", "9", "F", "8", "E", "7", "D", "6", "C", "_", "3", "_", "Q", "2", "2", "4", ":", " ", "W", "h", "i", "c">>,
      <<"6", "a", "6", "d", "b", "c", "2", "e", "2", "b", "c", "b", "d", "b", "3", "1", "8", "d", "d", "6", "f", "8", "c", "8", "8", "4", "b", "a", "6", "9", "a", "5">>>>,
    <<<<"Q", "U", "I", "Z", "_", "9", "F", "8", "E", "7", "D", "6", "C", "_", "3", "_", "Q", "1", "5", "4", ":", " ", "O", "r", "d", "e">>,
      <<"9", "0", "e", "2", "c", "9", "f", "a", "0", "8", "4", "8", "f", "3", "a", "c", "0", "b", "f", "9", "9", "6", "d", "7", "5", "b", "3", "9", "7", "c", "7", "0">>>>,
    <<<<"Q", "U", "I", "Z", "_", "9", "F", "8", "E", "7", "D", "6", "C", "_", "3", "_", "S", "e", "l", "e", "c", "t", " ", "[", "S", "L">>,
      <<"6", "4", "0", "a", "d", "3", "3", "2", "8", "3", "f", "1", "0", "4", "b", "d", "3", "2", "1", "1", "0", "6", "b", "f", "6", "2", "e", "e", "1", "9", "d", "f">>>>,
    <<<<"Q", "U", "I", "Z", "_", "9", "F", "8", "E", "7", "D", "6", "C", "_", "3", "_", "D", "r", "a", "g", " ", "t", "h", "e", " ", "s">>,
      <<"e", "7", "1", "3", "2", "b", "3", "0", "9", "9", "4", "f", "f", "1", "4", "b", "9", "0", "8", "3", "9", "9", "b", "4", "2", "e", "b", "d", "9", "c", "4", "1">>>>
}

md5_hexdigest(text) == (CHOOSE p \in MD5Table : p[1] = text)[2]

\* the values str(uuid.uuid4())[:8].upper() may take
UuidTokens == {<<"1", "A", "2", "B", "3", "C", "4", "D">>, <<"9", "F", "8", "E", "7", "D", "6", "C">>}

\* the token of a call that draws none
NoToken == << >>

\* what uuid4 may return to make_key(prefix, base)
TokensFor(base) == IF base = << >> THEN UuidTokens ELSE {NoToken}

\* re.sub(r"[^A-Za-z0-9]", "", base)
clean(base) == SelectSeq(base, IsAlnum)

\* token: the value of str(uuid.uuid4())[:8].upper(), read only when base is empty
make_key(prefix, base, token) ==
    IF base = << >> THEN prefix \o <<"_">> \o token
    ELSE prefix \o <<"_">> \o Upper(Take(clean(base), 15)) \o <<"_">>
                \o Upper(Take(md5_hexdigest(base), 4))

----------------------------------------------------------------------------
(* infer_tags *)

\* the text p stands at position i of s
StartsAt(p, s, i) ==
    /\ i >= 1 /\ i + Len(p) - 1 <= Len(s)
    /\ s[i] = p[1] /\ SubSeq(s, i, i + Len(p) - 1) = p

\* a literal pattern \bphrase\b is found in s (phrase starts and ends with letters)
WordMatch(phrase, s) ==
    \E i \in 1..Len(s) :
        /\ StartsAt(phrase, s, i)
        /\ (i = 1 \/ ~IsWordChar(s[i - 1]))
        /\ (i + Len(phrase) > Len(s) \/ ~IsWordChar(s[i + Len(phrase)]))

\* \bazure\s*ad\b is found in s
AzureAdMatch(s) ==
    \E i \in 1..Len(s) :
        /\ StartsAt(<<"a", "z", "u", "r", "e">>, s, i)
        /\ (i = 1 \/ ~IsWordChar(s[i - 1]))
        /\ LET j == SkipSpace(s, i + 5)
           IN  /\ StartsAt(<<"a", "d">>, s, j)
               /\ (j + 2 > Len(s) \/ ~IsWordChar(s[j + 2]))

\* KEYWORD_TAG_MAP: the literal alternatives of each pattern, and its tag
KEYWORD_TAG_MAP == {
    [alts |-> {<<"e", "n", "t", "r", "a">>}, tag |-> <<"i", "d", "e", "n", "t", "i", "t", "y">>],
    [alts |-> {<<"c", "o", "n", "d", "i", "t", "i", "o", "n", "a", "l", " ", "a", "c", "c", "e", "s", "s">>}, tag |-> <<"c", "o", "n", "d", "i", "t", "i", "o", "n", "a", "l", "-", "a", "c", "c", "e", "s", "s">>],
    [alts |-> {<<"m", "f", "a">>}, tag |-> <<"m", "f", "a">>],
    [alts |-> {<<"r", "b", "a", "c">>}, tag |-> <<"r", "b", "a", "c">>],
    [alts |-> {<<"k", "e", "y", " ", "v", "a", "u", "l", "t">>}, tag |-> <<"k", "e", "y", "-", "v", "a", "u", "l", "t">>],
    [alts |-> {<<"m", "a", "n", "a", "g", "e", "d", " ", "i", "d", "e", "n", "t", "i", "t", "y">>}, tag |-> <<"m", "a", "n", "a", "g", "e", "d", "-", "i", "d", "e", "n", "t", "i", "t", "y">>],
    [alts |-> {<<"p", "o", "l", "i", "c", "y">>}, tag |-> <<"p", "o", "l", "i", "c", "y">>],
    [alts |-> {<<"b", "l", "o", "b">>, <<"s", "t", "o", "r", "a", "g", "e", " ", "a", "c", "c", "o", "u", "n", "t">>}, tag |-> <<"s", "t", "o", "r", "a", "g", "e">>],
    [alts |-> {<<"c", "o", "s", "m", "o", "s", " ", "d", "b">>}, tag |-> <<"c", "o", "s", "m", "o", "s", "d", "b">>],
    [alts |-> {<<"s", "q", "l">>}, tag |-> <<"s", "q", "l">>],
    [alts |-> {<<"v", "i", "r", "t", "u", "a", "l", " ", "m", "a", "c", "h", "i", "n", "e">>, <<"v", "m">>}, tag |-> <<"c", "o", "m", "p", "u", "t", "e">>],
    [alts |-> {<<"a", "k", "s">>, <<"k", "u", "b", "e", "r", "n", "e", "t", "e", "s">>}, tag |-> <<"c", "o", "n", "t", "a", "i", "n", "e", "r", "s">>],
    [alts |-> {<<"v", "n", "e", "t">>, <<"n", "s", "g">>}, tag |-> <<"n", "e", "t", "w", "o", "r", "k", "i", "n", "g">>],
    [alts |-> {<<"m", "o", "n", "i", "t", "o", "r">>}, tag |-> <<"m", "o", "n", "i", "t", "o", "r", "i", "n", "g">>],
    [alts |-> {<<"s", "e", "n", "t", "i", "n", "e", "l">>}, tag |-> <<"s", "e", "n", "t", "i", "n", "e", "l">>],
    [alts |-> {<<"p", "o", "w", "e", "r", " ", "b", "i">>}, tag |-> <<"p", "o", "w", "e", "r", "-", "b", "i">>],
    [alts |-> {<<"d", "a", "x">>}, tag |-> <<"d", "a", "x">>],
    [alts |-> {<<"d", "a", "t", "a", " ", "m", "o", "d", "e", "l", "i", "n", "g">>}, tag |-> <<"d", "a", "t", "a", "-", "m", "o", "d", "e", "l", "i", "n", "g">>],
    [alts |-> {<<"v", "i", "s", "u", "a", "l", "i", "z", "a", "t", "i", "o", "n">>}, tag |-> <<"v", "i", "s", "u", "a", "l", "i", "z", "a", "t", "i", "o", "n">>],
    [alts |-> {<<"p", "o", "w", "e", "r", " ", "q", "u", "e", "r", "y">>}, tag |-> <<"p", "o", "w", "e", "r", "-", "q", "u", "e", "r", "y">>]
}

\* the length of the run of characters satisfying lowercase-letter / digit from i
LetterRun(s, i) ==
    LET stop == {j \in i..Len(s) : ~IsLower(s[j])}
    IN  (IF stop = {} THEN Len(s) + 1 ELSE CHOOSE j \in stop : \A k \in stop : j <= k) - i

DigitRun(s, i) ==
    LET stop == {j \in i..Len(s) : ~IsDigit(s[j])}
    IN  (IF stop = {} THEN Len(s) + 1 ELSE CHOOSE j \in stop : \A k \in stop : j <= k) - i

\* \b([a-z]{1,3}-\d{2,4})\b matches at position i of s, over this many characters
\* (0: no match)
ExamCodeLen(s, i) ==
    LET a == LetterRun(s, i)
        d == DigitRun(s, i + a + 1)
        e == i + a + 1 + d
    IN  IF /\ (i = 1 \/ ~IsWordChar(s[i - 1]))
           /\ a \in 1..3
           /\ i + a <= Len(s) /\ s[i + a] = "-"
           /\ d \in 2..4
           /\ (e > Len(s) \/ ~IsWordChar(s[e]))
        THEN a + 1 + d ELSE 0

\* the tags of the title: the first exam code in it, uppercased
title_tags(title) ==
    LET low == Lower(title)
        at == {i \in 1..Len(low) : ExamCodeLen(low, i) > 0}
    IN  IF at = {} THEN {}
        ELSE LET i == CHOOSE i \in at : \A j \in at : i <= j
             IN  {Upper(SubSeq(low, i, i + ExamCodeLen(low, i) - 1))}

content_tags(text_content) ==
    LET content == Lower(text_content)
    IN  {e.tag : e \in {x \in KEYWORD_TAG_MAP : \E p \in x.alts : WordMatch(p, content)}}
        \cup (IF AzureAdMatch(content) THEN {<<"i", "d", "e", "n", "t", "i", "t", "y">>} ELSE {})

\* the set `tags` infer_tags collects
all_tags(text_content, title) == title_tags(title) \cup content_tags(text_content)

\* the values ",".join(list(tags)[:8]) may take, as the set of tags joined: a set
\* lists in any order, so with more than 8 tags any 8 may be kept
infer_tags(text_content, title) ==
    LET tags == all_tags(text_content, title)
    IN  IF Cardinality(tags) <= 8 THEN {tags}
        ELSE {t \in SUBSET tags : Cardinality(t) = 8}

----------------------------------------------------------------------------
(* clean_hint_text *)

clean_hint_text(h) ==
    IF IsBlank(h) THEN << >>
    ELSE LET s == Strip(h)
             j == SkipSpace(s, 5)
         IN  IF Lower(Take(s, 4)) = <<"h", "i", "n", "t">> /\ j <= Len(s) /\ s[j] = ":"
             THEN From(s, SkipSpace(s, j + 1))
             ELSE s

----------------------------------------------------------------------------
(* The rows of df and the row loop of main() *)

DEFAULT_CATEGORY_NAME == <<"I", "T", " ", "&", " ", "T", "e", "c", "h", "n", "o", "l", "o", "g", "y">>
DEFAULT_INSTRUCTOR == <<"D", "e", "m", "o", " ", "I", "n", "s", "t", "r", "u", "c", "t", "o", "r">>
DEFAULT_PASSMARK == 70
DEFAULT_POINTS == 1
S_multiple_choice == <<"m", "u", "l", "t", "i", "p", "l", "e", "_", "c", "h", "o", "i", "c", "e">>
S_multiple_answer == <<"m", "u", "l", "t", "i", "p", "l", "e", "_", "a", "n", "s", "w", "e", "r">>
S_hotspot == <<"h", "o", "t", "s", "p", "o", "t">>
valid_types == {S_multiple_choice, S_multiple_answer, <<"t", "r", "u", "e", "_", "f", "a", "l", "s", "e">>, <<"s", "h", "o", "r", "t", "_", "a", "n", "s", "w", "e", "r">>,
                S_drag_drop, S_hotspot}

\* args.collection, the --collection argument of the run
ArgsCollection == <<"A", "Z", "-", "1", "0", "4">>

\* str(n) for n >= 0
DigitSeq == <<"0", "1", "2", "3", "4", "5", "6", "7", "8", "9">>
RECURSIVE str_int(_)
str_int(n) == IF n < 10 THEN <<DigitSeq[n + 1]>> ELSE str_int(n \div 10) \o <<DigitSeq[(n % 10) + 1]>>

\* str(cell)
str_cell(cell) == IF cell = NaN THEN <<"n", "a", "n">> ELSE IF cell = None THEN <<"N", "o", "n", "e">> ELSE cell

\* row.get(col, default) on a sheet with the columns cols
row_get(cols, row, col, default) == IF col \in cols THEN row[col] ELSE default

cat_name(cols, row) == clean_text(row_get(cols, row, "Category", DEFAULT_CATEGORY_NAME))
col_name(cols, row) == clean_text(row_get(cols, row, "Collection", ArgsCollection))
quiz_title(cols, row) ==
    clean_text(row_get(cols, row, "Quiz", col_name(cols, row) \o <<" ", "B", "a", "t", "c", "h", " ", "1">>))

category_row(cat_key, name) ==
    [CategoryKey |-> cat_key, Name |-> name,
     Description |-> name \o <<" ", "C", "e", "r", "t", "i", "f", "i", "c", "a", "t", "i", "o", "n">>,
     Icon |-> <<"s", "e", "r", "v", "e", "r">>, Color |-> <<"#", "3", "B", "8", "2", "F", "6">>, IsActive |-> TRUE]

\* the collection's own key written where the category's belongs
collection_row_own_key(col_key, name, cat_key) ==
    [CollectionKey |-> col_key, Name |-> name,
     Description |-> <<"P", "r", "e", "p", "a", "r", "a", "t", "i", "o", "n", " ", "f", "o", "r", " ">> \o name, CategoryKey |-> col_key,
     Difficulty |-> <<"m", "e", "d", "i", "u", "m">>, IsPublic |-> TRUE, InstructorName |-> DEFAULT_INSTRUCTOR]

collection_row(col_key, name, cat_key) ==
    [CollectionKey |-> col_key, Name |-> name,
     Description |-> <<"P", "r", "e", "p", "a", "r", "a", "t", "i", "o", "n", " ", "f", "o", "r", " ">> \o name, CategoryKey |-> cat_key,
     Difficulty |-> <<"m", "e", "d", "i", "u", "m">>, IsPublic |-> TRUE, InstructorName |-> DEFAULT_INSTRUCTOR]

quiz_row(quiz_key, title, col_key, tags) ==
    [QuizKey |-> quiz_key, Title |-> title,
     Description |-> <<"P", "r", "a", "c", "t", "i", "c", "e", " ", "q", "u", "e", "s", "t", "i", "o", "n", "s", " ", "f", "o", "r", " ">> \o title, CollectionKey |-> col_key,
     Difficulty |-> <<"m", "e", "d", "i", "u", "m">>, PassMark |-> DEFAULT_PASSMARK, TimeLimitSeconds |-> 3600,
     IsPublic |-> TRUE, Tags |-> tags]

\* tbl[key] = value without the membership test
insert_overwriting(tbl, key, value) ==
    [k \in DOMAIN tbl \cup {key} |-> IF k = key THEN value ELSE tbl[k]]

\* if key not in tbl: tbl[key] = value
insert_if_absent(tbl, key, value) ==
    IF key \in DOMAIN tbl THEN tbl
    ELSE [k \in DOMAIN tbl \cup {key} |-> IF k = key THEN value ELSE tbl[k]]

\* the text infer_tags scans for a new quiz
tag_content(cols, row) ==
    str_cell(row_get(cols, row, "Question", None)) \o <<" ">>
        \o str_cell(row_get(cols, row, "Explanation", None))

\* the least length a scenario text must exceed
SCENARIO_MIN_LEN == 15

scen_text_of(cols, row) == clean_text(row_get(cols, row, "Scenario", None))

\* the threshold test with >= for >
is_valid_scenario_inclusive(scen_text) ==
    scen_text # << >> /\ Len(scen_text) >= SCENARIO_MIN_LEN

\* if scen_text and len(scen_text) > 15
is_valid_scenario(scen_text) == scen_text # << >> /\ Len(scen_text) > SCENARIO_MIN_LEN

\* scenario_key after section B, given seen_scenarios before it
scenario_key_of(seen, scen_text) ==
    IF ~is_valid_scenario(scen_text) THEN None
    ELSE LET scen_hash == md5_hexdigest(scen_text)
         IN  IF scen_hash \in DOMAIN seen THEN seen[scen_hash]
             ELSE make_key(<<"S", "C", "N">>, scen_hash, NoToken)

\* seen_scenarios after section B
seen_after(seen, scen_text) ==
    IF ~is_valid_scenario(scen_text) THEN seen
    ELSE insert_if_absent(seen, md5_hexdigest(scen_text),
                          make_key(<<"S", "C", "N">>, md5_hexdigest(scen_text), NoToken))

scenario_row(scenario_key, quiz_key, scen_text, n) ==
    [ScenarioKey |-> scenario_key, QuizKey |-> quiz_key,
     Title |-> <<"C", "a", "s", "e", " ", "S", "t", "u", "d", "y", " ">> \o str_int(n), Context |-> scen_text,
     MediaUrl |-> << >>, MediaType |-> <<"t", "e", "x", "t">>, TimeDuration |-> 600, Order |-> n]

\* section B appending a row for every valid scenario text, seen or not
scenarios_after_no_dedup(scens, seen, scen_text, quiz_key) ==
    IF is_valid_scenario(scen_text)
    THEN Append(scens, scenario_row(scenario_key_of(seen, scen_text), quiz_key, scen_text,
                                    Cardinality(DOMAIN seen) + 1))
    ELSE scens

\* tbl_scenarios after section B
scenarios_after(scens, seen, scen_text, quiz_key) ==
    IF is_valid_scenario(scen_text) /\ md5_hexdigest(scen_text) \notin DOMAIN seen
    THEN Append(scens, scenario_row(scenario_key_of(seen, scen_text), quiz_key, scen_text,
                                    Cardinality(DOMAIN seen) + 1))
    ELSE scens

q_text_of(cols, row) == clean_text(row_get(cols, row, "Question", None))

\* make_key("Q", f"{quiz_key}_{index}_{q_text[:10]}")
question_key(quiz_key, index, q_text) ==
    make_key(<<"Q">>, quiz_key \o <<"_">> \o str_int(index) \o <<"_">> \o Take(q_text, 10), NoToken)

\* q_type after the mapping to the schema's types
q_type_of(cols, row) ==
    LET t == Lower(clean_text(row_get(cols, row, "Question_Type", S_multiple_choice)))
    IN  IF t \in valid_types THEN t ELSE S_multiple_choice

question_row(cols, row, index, q_key, quiz_key, scenario_key) ==
    [QuestionKey |-> q_key,
     QuizKey |-> quiz_key,
     Type |-> q_type_of(cols, row),
     Text |-> q_text_of(cols, row),
     Explanation |-> clean_text(row_get(cols, row, "Explanation", None)),
     Points |-> DEFAULT_POINTS,
     Order |-> index + 1,
     ScenarioKey |-> scenario_key,
     ScenarioOrder |-> IF scenario_key # None THEN <<1>> ELSE NoneInt,
     CorrectAnswer |-> clean_text(row_get(cols, row, "Correct_Options", None)),
     FuzzyMatch |-> FALSE,
     PartialScoring |-> q_type_of(cols, row) \in {S_multiple_answer, S_drag_drop}]

hint_row(q_key, hint_text) ==
    [QuestionKey |-> q_key, HintText |-> hint_text, HintOrder |-> 1, PointsDeduction |-> 0]

\* tbl_hints after section E
hints_after(hints, q_key, h) ==
    IF clean_hint_text(h) # << >> THEN Append(hints, hint_row(q_key, clean_hint_text(h)))
    ELSE hints

\* One iteration of the loop: the tables after the row `row` at index `index`, given
\* the tables `t` before it, the tokens uuid4 returns to the three make_key calls of
\* section A and the tags infer_tags returns
process_row(t, cols, index, row, tok_cat, tok_col, tok_quiz, tags) ==
    LET cat_key == make_key(<<"C", "A", "T">>, cat_name(cols, row), tok_cat)
        col_key == make_key(<<"C", "O", "L">>, col_name(cols, row), tok_col)
        quiz_key == make_key(<<"Q", "U", "I", "Z">>, quiz_title(cols, row), tok_quiz)
        scen_text == scen_text_of(cols, row)
        scenario_key == scenario_key_of(t.seen_scenarios, scen_text)
        q_key == question_key(quiz_key, index, q_text_of(cols, row))
    IN  [categories |-> insert_if_absent(t.categories, cat_key,
                                         category_row(cat_key, cat_name(cols, row))),
         collections |-> insert_if_absent(t.collections, col_key,
                                          collection_row(col_key, col_name(cols, row), cat_key)),
         quizzes |-> insert_if_absent(t.quizzes, quiz_key,
                                      quiz_row(quiz_key, quiz_title(cols, row), col_key, tags)),
         seen_scenarios |-> seen_after(t.seen_scenarios, scen_text),
         scenarios |-> scenarios_after(t.scenarios, t.seen_scenarios, scen_text, quiz_key),
         questions |-> Append(t.questions,
                              question_row(cols, row, index, q_key, quiz_key, scenario_key)),
         options |-> t.options \o parse_options_v2(q_key, q_type_of(cols, row),
                                                   row_get(cols, row, "Options", None),
                                                   row_get(cols, row, "Correct_Options", None)),
         hints |-> hints_after(t.hints, q_key, row_get(cols, row, "Hints", None))]

----------------------------------------------------------------------------
(* The inputs *)

\* the most rows a run reads
MaxRows == 3

\* the columns a sheet may have after normalize_input: every column, or only the
\* question's own
FullLayout == {"Category", "Collection", "Quiz", "Scenario", "Question", "Question_Type",
               "Options", "Correct_Options", "Explanation", "Hints"}
BareLayout == {"Scenario", "Question", "Options", "Correct_Options", "Explanation"}
Layouts == {FullLayout, BareLayout}

QuizA == <<"A", "Z", "-", "1", "0", "4", " ", "P", "r", "a", "c", "t", "i", "c", "e", " ", "T", "e", "s", "t">>
QuizB == <<"A", "Z", "-", "1", "0", "4", " ", "M", "o", "c", "k", " ", "E", "x", "a", "m">>
H1 == [Category |-> <<"C", "l", "o", "u", "d">>, Collection |-> <<"A", "Z", "-", "1", "0", "4">>, Quiz |-> QuizA]
\* the collection and quiz of H1 under another category
H2 == [Category |-> <<" ", "D", "a", "t", "a">>, Collection |-> <<"A", "Z", "-", "1", "0", "4">>, Quiz |-> QuizA]
\* the quiz of H1 under another collection
H3 == [Category |-> <<"C", "l", "o", "u", "d">>, Collection |-> <<"D", "P", "-", "9", "0", "0">>, Quiz |-> QuizA]
\* blank Category and Quiz cells
H4 == [Category |-> NaN, Collection |-> <<"A", "Z", "-", "1", "0", "4">>, Quiz |-> NaN]
\* another quiz of H1's collection
H5 == [Category |-> <<"C", "l", "o", "u", "d">>, Collection |-> <<"A", "Z", "-", "1", "0", "4">>, Quiz |-> QuizB]

\* 15 and 16 characters
Scen15 == <<"C", "o", "n", "t", "o", "s", "o", " ", "L", "t", "d", ".", " ", "V", "M">>
Scen16 == <<"C", "o", "n", "t", "o", "s", "o", " ", "L", "t", "d", ".", " ", "V", "M", "s">>
\* two texts of 72 characters with the same md5 digest
ScenT1 == <<"T", "E", "X", "T", "C", "O", "L", "L", "B", "Y", "f", "G", "i", "J", "U", "E", "T", "H", "Q", "4", "h", "A", "c", "K", "S", "M", "d", "5", "z", "Y", "p", "g", "q", "f", "1", "Y", "R", "D", "h", "k", "m", "x", "H", "k", "h", "P", "W", "p", "t", "r", "k", "o", "y", "z", "2", "8", "w", "n", "I", "9", "V", "0", "a", "H", "e", "A", "u", "a", "K", "n", "a", "k">>
ScenT2 == <<"T", "E", "X", "T", "C", "O", "L", "L", "B", "Y", "f", "G", "i", "J", "U", "E", "T", "H", "Q", "4", "h", "E", "c", "K", "S", "M", "d", "5", "z", "Y", "p", "g", "q", "f", "1", "Y", "R", "D", "h", "k", "m", "x", "H", "k", "h", "P", "W", "p", "t", "r", "k", "o", "y", "z", "2", "8", "w", "n", "I", "9", "V", "0", "a", "H", "e", "A", "u", "a", "K", "n", "a", "k">>
\* ScenT1 in a padded cell
ScenT1Pad == <<" ", " ">> \o ScenT1 \o <<" ">>

OptLettered == <<"A", ")", " ", "A", "l", "p", "h", "a", ";", " ", "B", ")", " ", "B", "e", "t", "a", ";", " ", "C", ")", " ", "G", "a", "m", "m", "a">>
OptSteps == <<"S", "t", "e", "p", " ", "O", "n", "e", ";", " ", "S", "t", "e", "p", " ", "T", "w", "o", ";", " ", "S", "t", "e", "p", " ", "T", "h", "r", "e", "e">>
OptLetteredSteps == <<"A", ")", " ", "S", "t", "e", "p", " ", "O", "n", "e", ";", " ", "B", ")", " ", "S", "t", "e", "p", " ", "T", "w", "o">>
OptYesNo == <<"Y", "e", "s", ";", "N", "o", ";">>
OptDigits == <<"A", ")", " ", "1", ";", " ", "B", ")", " ", "2">>
CorSteps == <<"S", "t", "e", "p", " ", "T", "w", "o", ";", " ", "S", "t", "e", "p", " ", "O", "n", "e", ";", " ", "S", "t", "e", "p", " ", "T", "h", "r", "e", "e">>

Qa == [Question |-> <<"Q", "2", "2", "4", ":", " ", "W", "h", "i", "c", "h", " ", "V", "M", " ", "s", "i", "z", "e", " ", "f", "i", "t", "s", "?">>, Question_Type |-> <<" ", "M", "u", "l", "t", "i", "p", "l", "e", "_", "C", "h", "o", "i", "c", "e">>,
       Options |-> OptLettered, Correct_Options |-> <<"B">>,
       Explanation |-> <<"B", "e", "t", "a", " ", "u", "s", "e", "s", " ", "R", "B", "A", "C", ".">>, Hints |-> <<"H", "i", "n", "t", ":", " ", "t", "h", "i", "n", "k", " ", "R", "B", "A", "C">>]
Qb == [Question |-> <<"Q", "1", "5", "4", ":", " ", "O", "r", "d", "e", "r", " ", "t", "h", "e", " ", "s", "t", "e", "p", "s", ".">>, Question_Type |-> S_ordering,
       Options |-> OptSteps, Correct_Options |-> CorSteps,
       Explanation |-> NaN, Hints |-> NaN]
Qc == [Question |-> <<"S", "e", "l", "e", "c", "t", " ", "[", "S", "L", "O", "T", "1", "]", " ", "f", "o", "r", " ", "t", "h", "e", " ", "V", "N", "e", "t", ".">>, Question_Type |-> <<"H", "o", "t", "s", "p", "o", "t">>,
       Options |-> OptYesNo, Correct_Options |-> <<"Y", "e", "s">>,
       Explanation |-> <<"A", "z", "u", "r", "e", " ", "A", "D", " ", "p", "o", "l", "i", "c", "y">>, Hints |-> NaN]
Qd == [Question |-> <<"D", "r", "a", "g", " ", "t", "h", "e", " ", "s", "t", "e", "p", "s", " ", "i", "n", "t", "o", " ", "o", "r", "d", "e", "r", ".">>, Question_Type |-> S_drag_drop,
       Options |-> OptLetteredSteps, Correct_Options |-> <<"S", "t", "e", "p", " ", "T", "w", "o", ";", " ", "S", "t", "e", "p", " ", "O", "n", "e">>,
       Explanation |-> NaN, Hints |-> <<"o", "r", "d", "e", "r", " ", "m", "a", "t", "t", "e", "r", "s">>]

InputRow(h, scen, q) == h @@ [Scenario |-> scen] @@ q

\* the rows a sheet with every column may hold
FullRows ==
    {InputRow(H1, s, Qa) : s \in {Scen15, Scen16, ScenT1, ScenT2}}
    \cup {InputRow(H5, ScenT1Pad, Qa), InputRow(H1, NaN, Qb), InputRow(H2, NaN, Qc),
          InputRow(H3, NaN, Qd), InputRow(H4, NaN, Qb)}

\* the rows a sheet with the columns cols may hold: a row has a cell per column
InputRows(cols) == {[c \in cols |-> r[c]] : r \in FullRows}

\* the arguments of a direct call of parse_options_v2
ParseCalls ==
    [q_type : {S_multiple_choice, S_drag_drop, S_sequence, S_hotspot},
     options : {OptLettered, OptSteps, OptLetteredSteps, OptYesNo, OptDigits, <<" ", " ">>, NaN},
     correct : {<<"B">>, <<"B", ")">>, <<"b", ")", " ", "B", "e", "t", "a">>, <<"A", ")", " ", "A", "l", "p", "h", "a", ";", " ", "C", ")", " ", "G", "a", "m", "m", "a">>, CorSteps,
                <<"S", "t", "e", "p", " ", "T", "w", "o", ";", " ", "S", "t", "e", "p", " ", "O", "n", "e">>, <<"Y", "e", "s">>, <<"C", ")", " ", "1", "2">>, NaN}]

NoCall == [q_type |-> << >>, options |-> NaN, correct |-> NaN]

----------------------------------------------------------------------------
(* The run *)

tables ==
    [categories |-> tbl_categories, collections |-> tbl_collections,
     quizzes |-> tbl_quizzes, seen_scenarios |-> seen_scenarios,
     scenarios |-> tbl_scenarios, questions |-> tbl_questions,
     options |-> tbl_options, hints |-> tbl_hints]

\* the containers and trackers main() creates before the loop
InitTables ==
    /\ df = << >>
    /\ tbl_categories = << >>
    /\ tbl_collections = << >>
    /\ tbl_quizzes = << >>
    /\ tbl_scenarios = << >>
    /\ tbl_questions = << >>
    /\ tbl_options = << >>
    /\ tbl_hints = << >>
    /\ seen_scenarios = << >>

Init ==
    /\ columns \in Layouts
    /\ InitTables
    /\ pc = "loop"
    /\ call = NoCall
    /\ ret = << >>

\* the tags of the quiz row this iteration inserts (none when the quiz is known)
TagsFor(cols, row, tok_quiz) ==
    IF make_key(<<"Q", "U", "I", "Z">>, quiz_title(cols, row), tok_quiz) \in DOMAIN tbl_quizzes THEN {{}}
    ELSE infer_tags(tag_content(cols, row), quiz_title(cols, row))

\* one iteration of `for index, row in df.iterrows()`
ProcessRow ==
    /\ pc = "loop"
    /\ Len(df) < MaxRows
    /\ \E row \in InputRows(columns) :
       \E tok_cat \in TokensFor(cat_name(columns, row)),
          tok_col \in TokensFor(col_name(columns, row)),
          tok_quiz \in TokensFor(quiz_title(columns, row)) :
       \E tags \in TagsFor(columns, row, tok_quiz) :
          LET t == process_row(tables, columns, Len(df), row, tok_cat, tok_col, tok_quiz, tags)
          IN  /\ df' = Append(df, row)
              /\ tbl_categories' = t.categories
              /\ tbl_collections' = t.collections
              /\ tbl_quizzes' = t.quizzes
              /\ seen_scenarios' = t.seen_scenarios
              /\ tbl_scenarios' = t.scenarios
              /\ tbl_questions' = t.questions
              /\ tbl_options' = t.options
              /\ tbl_hints' = t.hints
    /\ UNCHANGED <<columns, pc, call, ret>>

Next == ProcessRow

Spec == Init /\ [][Next]_vars

\* a direct call of parse_options_v2
InitParse ==
    /\ columns = FullLayout
    /\ InitTables
    /\ pc = "call"
    /\ call \in ParseCalls
    /\ ret = << >>

CallParse ==
    /\ pc = "call"
    /\ ret' = parse_options_v2(<<"Q", "_", "K", "E", "Y">>, call.q_type, call.options, call.correct)
    /\ pc' = "returned"
    /\ UNCHANGED <<columns, df, tbl_categories, tbl_collections, tbl_quizzes, tbl_scenarios,
                   tbl_questions, tbl_options, tbl_hints, seen_scenarios, call>>

NextParse == CallParse

SpecParse == InitParse /\ [][NextParse]_vars

----------------------------------------------------------------------------
(* Properties of the run *)

\* the trimmed Scenario text of the i-th row read
ScenTextAt(i) == scen_text_of(columns, df[i])

LongScenario(i) == Len(ScenTextAt(i)) > SCENARIO_MIN_LEN

\* the Scenarios rows that hold the text
ScenarioRowsFor(text) == {k \in 1..Len(tbl_scenarios) : tbl_scenarios[k].Context = text}

\* the first row with the digest of the i-th row's scenario held another text
DigestTakenBefore(i) ==
    \E k \in 1..(i - 1) :
        /\ LongScenario(k)
        /\ ScenTextAt(k) # ScenTextAt(i)
        /\ md5_hexdigest(ScenTextAt(k)) = md5_hexdigest(ScenTextAt(i))
        /\ \A m \in 1..(k - 1) :
              LongScenario(m) =>
                  md5_hexdigest(ScenTextAt(m)) # md5_hexdigest(ScenTextAt(i))

\* C1 as stated: two rows with the same trimmed Scenario text, longer than the
\* threshold, have Questions with the same ScenarioKey, and the Scenarios table holds
\* exactly one row for that text
C1_OneRowPerText ==
    \A i, j \in 1..Len(df) :
        (i # j /\ ScenTextAt(i) = ScenTextAt(j) /\ LongScenario(i))
        => /\ tbl_questions[i].ScenarioKey = tbl_questions[j].ScenarioKey
           /\ Cardinality(ScenarioRowsFor(ScenTextAt(i))) = 1

\* C1 amended: two rows with the same trimmed Scenario text, longer than the
\* threshold, have Questions with the same ScenarioKey; the Scenarios table holds
\* exactly one row for that text, or none when the first row with that text's md5
\* digest held a different scenario text
C1_ScenarioDedup ==
    \A i, j \in 1..Len(df) :
        (i < j /\ ScenTextAt(i) = ScenTextAt(j) /\ LongScenario(i))
        => /\ tbl_questions[i].ScenarioKey = tbl_questions[j].ScenarioKey
           /\ Cardinality(ScenarioRowsFor(ScenTextAt(i)))
                = (IF DigestTakenBefore(i) THEN 0 ELSE 1)

\* the same scenario in a plain and in a padded cell, another scenario between them
C1_Witness ==
    \E i, j \in 1..Len(df) :
        /\ j > i + 1
        /\ ScenTextAt(i) = ScenTextAt(j) /\ LongScenario(i)
        /\ df[i].Scenario # df[j].Scenario
        /\ Len(tbl_scenarios) = 2
        /\ tbl_questions[j].ScenarioKey = tbl_scenarios[1].ScenarioKey

\* the cell of the column col in the i-th row (None when the sheet has no such column)
CellAt(i, col) == row_get(columns, df[i], col, None)

SameHierarchy(i, j) ==
    \A col \in {"Category", "Collection", "Quiz"} : CellAt(i, col) = CellAt(j, col)

\* C2: rows that share their Category, Collection and Quiz values, blank or not,
\* produce one Categories row, one Collections row and one Quizzes row, and their
\* Questions carry the same QuizKey
C2_HierarchyReuse ==
    (df # << >> /\ \A i, j \in 1..Len(df) : SameHierarchy(i, j))
    => /\ Cardinality(DOMAIN tbl_categories) = 1
       /\ Cardinality(DOMAIN tbl_collections) = 1
       /\ Cardinality(DOMAIN tbl_quizzes) = 1
       /\ \A i, j \in 1..Len(tbl_questions) :
              tbl_questions[i].QuizKey = tbl_questions[j].QuizKey

CategoryKeys == {tbl_categories[k].CategoryKey : k \in DOMAIN tbl_categories}
CollectionKeys == {tbl_collections[k].CollectionKey : k \in DOMAIN tbl_collections}
QuizKeys == {tbl_quizzes[k].QuizKey : k \in DOMAIN tbl_quizzes}
ScenarioKeys == {tbl_scenarios[k].ScenarioKey : k \in 1..Len(tbl_scenarios)}
QuestionKeys == {tbl_questions[k].QuestionKey : k \in 1..Len(tbl_questions)}

\* C3: every cross-table key resolves: a Collection's CategoryKey in Categories, a
\* Quiz's CollectionKey in Collections, a Scenario's and a Question's QuizKey in
\* Quizzes, a Question's ScenarioKey, when set, in Scenarios, an Option's and a
\* Hint's QuestionKey in Questions
C3_KeysResolve ==
    /\ \A k \in DOMAIN tbl_collections : tbl_collections[k].CategoryKey \in CategoryKeys
    /\ \A k \in DOMAIN tbl_quizzes : tbl_quizzes[k].CollectionKey \in CollectionKeys
    /\ \A k \in 1..Len(tbl_scenarios) : tbl_scenarios[k].QuizKey \in QuizKeys
    /\ \A k \in 1..Len(tbl_questions) :
          /\ tbl_questions[k].QuizKey \in QuizKeys
          /\ tbl_questions[k].ScenarioKey # None
                => tbl_questions[k].ScenarioKey \in ScenarioKeys
    /\ \A k \in 1..Len(tbl_options) : tbl_options[k].QuestionKey \in QuestionKeys
    /\ \A k \in 1..Len(tbl_hints) : tbl_hints[k].QuestionKey \in QuestionKeys

\* every table holds rows, of two collections, a Question with a scenario among them
C3_Witness ==
    /\ Cardinality(DOMAIN tbl_collections) = 2
    /\ Cardinality(DOMAIN tbl_categories) = 2
    /\ \E k \in 1..Len(tbl_questions) : tbl_questions[k].ScenarioKey # None
    /\ tbl_options # << >>
    /\ tbl_hints # << >>

\* the question type the i-th row asks for
InputType(i) == Lower(clean_text(row_get(columns, df[i], "Question_Type", S_multiple_choice)))

\* the Option rows of the i-th Question
OptionsOf(i) ==
    {k \in 1..Len(tbl_options) : tbl_options[k].QuestionKey = tbl_questions[i].QuestionKey}

UniqueKey(i) ==
    \A j \in 1..Len(tbl_questions) :
        j # i => tbl_questions[j].QuestionKey # tbl_questions[i].QuestionKey

\* the correct-answer cell of the i-th row as text
RawCorrect(i) ==
    IF IsBlank(CellAt(i, "Correct_Options")) THEN << >> ELSE CellAt(i, "Correct_Options")

\* C5: an option of a drag_drop, sequence or ordering question is correct exactly
\* when its text body is a substring of the raw correct-answer string, and a correct
\* option's CorrectOrder is its position in the parsed options
C5_SequenceCorrectness ==
    \A i \in 1..Len(df) :
        (InputType(i) \in {S_drag_drop, S_sequence, S_ordering} /\ UniqueKey(i))
        => \A k \in OptionsOf(i) :
              /\ tbl_options[k].IsCorrect <=> Contains(tbl_options[k].Text, RawCorrect(i))
              /\ tbl_options[k].IsCorrect
                    => tbl_options[k].CorrectOrder = <<tbl_options[k].OrderIndex>>

\* C6: a row whose trimmed Scenario text has at most 15 characters adds no Scenarios
\* row and no seen_scenarios entry, and its Question has no ScenarioKey
C6_ShortScenarioIgnored ==
    [][(/\ Len(df') = Len(df) + 1
        /\ Len(scen_text_of(columns, df'[Len(df')])) <= SCENARIO_MIN_LEN)
       => /\ tbl_scenarios' = tbl_scenarios
          /\ seen_scenarios' = seen_scenarios
          /\ tbl_questions'[Len(tbl_questions')].ScenarioKey = None]_vars

\* a row with a scenario of exactly 15 characters was read after one with a scenario
C6_Witness ==
    \E i, j \in 1..Len(df) :
        /\ i < j
        /\ LongScenario(i)
        /\ Len(ScenTextAt(j)) = SCENARIO_MIN_LEN
        /\ tbl_questions[j].ScenarioKey = None
        /\ Len(tbl_scenarios) = 1
        /\ Cardinality(DOMAIN seen_scenarios) = 1

S_dropdown == <<"d", "r", "o", "p", "d", "o", "w", "n">>
S_yes_no_matrix == <<"y", "e", "s", "_", "n", "o", "_", "m", "a", "t", "r", "i", "x">>
S_click_region == <<"c", "l", "i", "c", "k", "_", "r", "e", "g", "i", "o", "n">>

\* the variant a Questions row carries
variant_of(q) == IF "Variant" \in DOMAIN q THEN q.Variant ELSE None

\* the variant the text of a hotspot question calls for
ExpectedVariant(text) ==
    IF Contains(<<"[", "s", "l", "o", "t">>, Lower(text)) THEN S_dropdown
    ELSE IF Contains(<<"s", "e", "l", "e", "c", "t", " ", "y", "e", "s", " ", "o", "r", " ", "n", "o">>, Lower(text)) THEN S_yes_no_matrix
    ELSE S_click_region

\* C7: a hotspot Question carries the variant its text calls for, dropdown,
\* yes_no_matrix or click_region, and any other Question carries none
C7_HotspotVariant ==
    \A k \in 1..Len(tbl_questions) :
        IF tbl_questions[k].Type = S_hotspot
        THEN variant_of(tbl_questions[k]) = ExpectedVariant(tbl_questions[k].Text)
        ELSE variant_of(tbl_questions[k]) = None

\* C8: no two Questions rows have the same QuestionKey
C8_UniqueQuestionKeys ==
    \A i, j \in 1..Len(tbl_questions) :
        i # j => tbl_questions[i].QuestionKey # tbl_questions[j].QuestionKey

\* every row of old is in new, unchanged
RowsKept(old, new) == \A k \in DOMAIN old : k \in DOMAIN new /\ new[k] = old[k]

----------------------------------------------------------------------------
(* Properties of parse_options_v2 called directly *)

\* the fragments of a semicolon-separated list, trimmed
Fragments(s) ==
    LET parts == SplitSemicolon(s)
    IN  SubSeq([k \in 1..Len(parts) |-> Strip(parts[k])], 1, Len(parts))

\* every fragment is "X) body"
IsLetteredList(s) ==
    /\ ~IsBlank(s)
    /\ Strip(s) # << >>
    /\ \A k \in 1..Len(Fragments(s)) : MarkerAt(Fragments(s)[k], 1)

\* the letters a correct-answer string gives: its one-letter words, in capitals
GivenLetters(s) ==
    {ToUpper(s[i]) : i \in {j \in 1..Len(s) :
        /\ IsAlpha(s[j])
        /\ (j = 1 \/ ~IsWordChar(s[j - 1]))
        /\ (j = Len(s) \/ ~IsWordChar(s[j + 1]))}}

\* C4: for a question that is no sequence and options "X) body; ...", one row per
\* fragment, its Text the body, OrderIndex 1..n, IsCorrect exactly on the options
\* whose letter the correct-answer string gives
C4_LetteredOptions ==
    (pc = "returned" /\ ~is_sequence(call.q_type) /\ IsLetteredList(call.options))
    => LET f == Fragments(call.options)
       IN  /\ Len(ret) = Len(f)
           /\ \A k \in 1..Len(ret) :
                 /\ ret[k].Text = Strip(From(f[k], 3))
                 /\ ret[k].OrderIndex = k
                 /\ ret[k].IsCorrect <=> ToUpper(f[k][1]) \in GivenLetters(clean_text(call.correct))

\* C9: for a question that is no sequence, an option whose letter is not among the
\* letters found in the correct-answer string is correct only if its text body is
\* longer than one character and a substring of the correct-answer string
C9_TextMatchGuard ==
    (pc = "returned" /\ ~is_sequence(call.q_type))
    => \A k \in 1..Len(ret) :
          LET frag == Strip(raw_options(clean_text(call.options))[k])
          IN  (/\ option_letter(frag, k) \notin correct_letters(clean_text(call.correct))
               /\ ret[k].IsCorrect)
              => /\ Len(ret[k].Text) > 1
                 /\ Contains(ret[k].Text, clean_text(call.correct))


\* the Scenarios rows a Question's ScenarioKey references
ScenariosReferencedBy(q) ==
    {k \in 1..Len(tbl_scenarios) : tbl_scenarios[k].ScenarioKey = tbl_questions[q].ScenarioKey}

\* C11: every Question with a ScenarioKey references a Scenarios row, and the QuizKey
\* of the referenced row is the Question's own QuizKey, also when the same scenario
\* text appears in rows of different quizzes
C11_ScenarioInOwnQuiz ==
    \A q \in 1..Len(tbl_questions) :
        tbl_questions[q].ScenarioKey # None
        => /\ ScenariosReferencedBy(q) # {}
           /\ \A k \in ScenariosReferencedBy(q) :
                 tbl_scenarios[k].QuizKey = tbl_questions[q].QuizKey
====
